---- MODULE Spec2Model ----
(***************************************************************************)
(* Model of ansible/inventory/dynamic_inventory.py: the state-backed       *)
(* generator (TerraformInventory), the API-backed generator (EC2Inventory) *)
(* and the command-line dispatcher (main).                                 *)
(***************************************************************************)
EXTENDS Integers, Sequences, FiniteSets, TLC

VARIABLES
    pc,            \* position of the run inside main / generate_inventory
    source,        \* args.source
    mode,          \* "list", "host" or "none" (neither --list nor --host)
    specific_env,  \* the specific_env argument of generate_inventory
    host_arg,      \* args.host
    inventory,     \* self.inventory of the generator in use
    cwd,           \* the process working directory
    env_idx,       \* index of the next environment of the for loop
    hosts_found,   \* the local counter of generate_inventory
    remaining,     \* instances of the API response not yet processed
    output,        \* what main printed
    exit_code,     \* -1 while running, then the exit status
    \* history variables (not program state)
    api_queried,   \* the state-backed generator called the cloud API
    from_state,    \* environments whose host was added from state
    valid_state,   \* environments with a true state check and outputs, every one
                   \* an object, that hold a non-empty public address
    valid_seen,    \* number of valid instances met on the fallback path
    addr_names,    \* hostnames of source items that carry a public address
    noaddr_names,  \* hostnames of source items that carry none
    last_raised,   \* the last _process_instance call caught an error
    ec2_valid      \* API-backed: instances met with an Environment tag and an address

vars == <<pc, source, mode, specific_env, host_arg, inventory, cwd, env_idx,
          hosts_found, remaining, output, exit_code, api_queried, from_state,
          valid_state, valid_seen, addr_names, noaddr_names, last_raised,
          ec2_valid>>

\* ------------------------------------------------------------- bounds
MaxInstances == 2

\* ------------------------------------------------------ Python values
None == [kind |-> "none", v |-> ""]
Str(s) == [kind |-> "str", v |-> s]
\* `not x` of Python is ~Truthy(x): None and the empty string are false
Truthy(x) == x.kind = "str" /\ x.v # ""

\* `x is None` / `x is not None`
IsNone(x) == x.kind = "none"

\* -------------------------------------------------- the inventory document
EmptyInventory == [hostvars |-> <<>>, groups |-> <<>>]

HostNames(inv) == DOMAIN inv.hostvars
GroupNames(inv) == DOMAIN inv.groups

\* number of occurrences of h in the list s
RECURSIVE Count(_, _)
Count(s, h) ==
    IF s = <<>> THEN 0
    ELSE (IF Head(s) = h THEN 1 ELSE 0) + Count(Tail(s), h)

InList(s, h) == \E i \in 1..Len(s) : s[i] = h

\* hosts list of a group; a group created without a 'hosts' key has none
HostsOf(inv, g) ==
    IF g \in GroupNames(inv) /\ inv.groups[g].has_hosts
    THEN inv.groups[g].hosts ELSE <<>>

SetHostVars(inv, h, rec) == [inv EXCEPT !.hostvars = (h :> rec) @@ @]
SetGroup(inv, g, rec) == [inv EXCEPT !.groups = (g :> rec) @@ @]

\* ----------------------------------------------- _run_terraform_command
terraform_environments == <<"dev", "staging", "prod">>
StartDir == "/start"
TerraformDir(env) == "terraform/environments/" \o env

\* what the tool printed, by what json.loads makes of it: nothing ("empty"),
\* text that is no JSON ("malformed"), the JSON null, a JSON array, or a JSON
\* object; `values` is the object's 'values' member, `fields` its outputs
Json(kind, values, fields) == [kind |-> kind, values |-> values, fields |-> fields]
NoStdout == Json("empty", "absent", <<>>)
JNone == Json("none", "absent", <<>>)
EmptyDict == Json("dict", "absent", <<>>)

\* every way one invocation of the tool can go; stdout matters only when the
\* tool ran and exited with status 0
Outcome(dir, getcwd, chdir, run, back1, back2, out) ==
    [dir_exists |-> dir, getcwd_ok |-> getcwd, chdir_ok |-> chdir, run |-> run,
     restore_ok |-> back1, finally_ok |-> back2, stdout |-> out]

ToolOutcomes(Stdouts) ==
    {Outcome(FALSE, TRUE, TRUE, "ok", TRUE, TRUE, NoStdout),
     Outcome(TRUE, FALSE, TRUE, "ok", TRUE, TRUE, NoStdout),
     Outcome(TRUE, TRUE, FALSE, "ok", TRUE, TRUE, NoStdout)}
    \cup {Outcome(TRUE, TRUE, TRUE, r, TRUE, b, NoStdout) :
              r \in {"notfound", "nonzero"}, b \in BOOLEAN}
    \cup {Outcome(TRUE, TRUE, TRUE, "ok", TRUE, TRUE, s) : s \in Stdouts}
    \cup {Outcome(TRUE, TRUE, TRUE, "ok", FALSE, b, NoStdout) : b \in BOOLEAN}

\* the value _run_terraform_command returns: None, {} or the parsed JSON
RunResult(o) ==
    IF ~o.dir_exists THEN JNone
    ELSE IF ~o.getcwd_ok \/ ~o.chdir_ok THEN JNone
    ELSE IF o.run # "ok" THEN JNone
    ELSE IF ~o.restore_ok THEN JNone
    ELSE IF o.stdout.kind = "empty" THEN EmptyDict
    ELSE IF o.stdout.kind \in {"malformed", "null"} THEN JNone
    ELSE o.stdout

\* the working directory when _run_terraform_command returns
CwdAfter(dir, env, o) ==
    IF ~o.dir_exists \/ ~o.getcwd_ok \/ ~o.chdir_ok THEN dir
    ELSE IF o.run = "ok" /\ o.restore_ok THEN dir
    ELSE IF o.finally_ok THEN dir
    ELSE TerraformDir(env)

\* what `terraform show -json` can print
ShowStdouts ==
    {NoStdout, Json("malformed", "absent", <<>>), Json("null", "absent", <<>>),
     Json("list", "absent", <<>>)}
    \cup {Json("dict", v, <<>>) : v \in {"absent", "null", "present"}}

\* one member of the outputs object: missing, not an object (a bare string or
\* number), or an object whose 'value' is `value` (None when it has none)
Entry(kind, value) == [kind |-> kind, value |-> value]
PublicIpEntries ==
    {Entry("absent", None), Entry("nondict", None)}
    \cup {Entry("dict", x) : x \in {None, Str(""), Str("1.2.3.4"), Str("5.6.7.8")}}
PrivateIpEntries ==
    {Entry("absent", None), Entry("nondict", None), Entry("dict", Str("10.0.0.1"))}
InstanceIdEntries == {Entry("nondict", None), Entry("dict", Str("i-0abc"))}
KeyNameEntries == {Entry("absent", None), Entry("dict", Str("iac-demo-key"))}

Outputs(pub, priv, iid, key) ==
    Json("dict", "absent",
         [k \in {"public_ip", "private_ip", "instance_id", "key_name"} |->
            CASE k = "public_ip" -> pub
              [] k = "private_ip" -> priv
              [] k = "instance_id" -> iid
              [] OTHER -> key])

\* what `terraform output -json` can print
OutputStdouts ==
    {NoStdout, Json("malformed", "absent", <<>>), Json("null", "absent", <<>>),
     Json("list", "absent", <<>>)}
    \cup {Outputs(a, b, c, d) : a \in PublicIpEntries, b \in PrivateIpEntries,
                                 c \in InstanceIdEntries, d \in KeyNameEntries}

\* _check_terraform_state: "raise" when result.get does not exist (the
\* parsed JSON is not an object), else the boolean it returns
CheckTerraformState(result) ==
    IF IsNone(result) THEN "false"
    ELSE IF result.kind # "dict" THEN "raise"
    ELSE IF result.values = "present" THEN "true"
    ELSE "false"

\* `if outputs:` (None, {} and [] are false)
OutputsTruthy(outputs) ==
    \/ outputs.kind = "list"
    \/ outputs.kind = "dict" /\ DOMAIN outputs.fields # {}

NoHostInfo == [ok |-> FALSE, info |-> <<>>]
HostInfo(info) == [ok |-> TRUE, info |-> info]

\* f'~/.ssh/{key_name}.pem'
KeyFile(key_name) ==
    "~/.ssh/" \o (IF IsNone(key_name) THEN "None" ELSE key_name.v) \o ".pem"

\* the public_ip value read at line 132, when reading it does not raise
OutputPublicIp(outputs) ==
    IF outputs.kind = "dict" /\ "public_ip" \in DOMAIN outputs.fields
       /\ outputs.fields["public_ip"].kind = "dict"
    THEN outputs.fields["public_ip"].value ELSE None

\* _extract_host_info_from_terraform: any error of the four reads is caught
\* and gives None
ExtractHostInfoFromTerraform(env, outputs) ==
    IF outputs.kind # "dict" THEN NoHostInfo
    ELSE IF \E k \in DOMAIN outputs.fields : outputs.fields[k].kind = "nondict"
    THEN NoHostInfo
    ELSE IF ~Truthy(outputs.fields["public_ip"].value) THEN NoHostInfo
    ELSE HostInfo([ansible_host |-> outputs.fields["public_ip"].value,
                   ansible_user |-> "ubuntu",
                   ansible_ssh_private_key_file |->
                       KeyFile(outputs.fields["key_name"].value),
                   environment |-> env,
                   private_ip |-> outputs.fields["private_ip"].value,
                   instance_id |-> outputs.fields["instance_id"].value,
                   key_name |-> outputs.fields["key_name"].value])

\* f"{env}-web-server"
TfHostname(env) == env \o "-web-server"

Group(has_hosts, hosts, gvars) ==
    [has_hosts |-> has_hosts, hosts |-> hosts, vars |-> gvars]

AllVars == {"ansible_python_interpreter", "ansible_ssh_common_args",
            "ansible_host_key_checking"}

\* lines 205-211: the web_servers group, created on first use, then append
AddToWebServers(inv, hostname) ==
    LET i1 == IF "web_servers" \in GroupNames(inv) THEN inv
              ELSE SetGroup(inv, "web_servers", Group(TRUE, <<>>, {}))
    IN  [ok |-> i1.groups["web_servers"].has_hosts,
         inv |-> IF i1.groups["web_servers"].has_hosts
                 THEN SetGroup(i1, "web_servers",
                               [i1.groups["web_servers"] EXCEPT
                                   !.hosts = Append(@, hostname)])
                 ELSE i1]

\* lines 213-221: the environment's group, created on first use, then append;
\* appending to a group that has no 'hosts' key is a KeyError (ok = FALSE)
AddToEnvGroup(inv, env, hostname) ==
    LET i1 == IF env \in GroupNames(inv) THEN inv
              ELSE SetGroup(inv, env, Group(TRUE, <<>>, {"environment"}))
    IN  [ok |-> i1.groups[env].has_hosts,
         inv |-> IF i1.groups[env].has_hosts
                 THEN SetGroup(i1, env,
                               [i1.groups[env] EXCEPT !.hosts = Append(@, hostname)])
                 ELSE i1]

\* lines 223-231: the all group is created with its vars only
AddAllGroup(inv) ==
    IF "all" \in GroupNames(inv) THEN inv
    ELSE SetGroup(inv, "all", Group(FALSE, <<>>, AllVars))

\* TerraformInventory._add_host_to_inventory; ok = FALSE when it raises
AddHostToInventory(inv, env, host_info) ==
    LET hostname == TfHostname(env)
        i1 == SetHostVars(inv, hostname, host_info)
        r2 == AddToWebServers(i1, hostname)
        r3 == AddToEnvGroup(r2.inv, env, hostname)
    IN  IF ~r2.ok THEN [ok |-> FALSE, inv |-> r2.inv]
        ELSE IF ~r3.ok THEN [ok |-> FALSE, inv |-> r3.inv]
        ELSE [ok |-> TRUE, inv |-> AddAllGroup(r3.inv)]

\* ------------------------------------------------ cloud instance records
\* a tag entry; has_key = FALSE is an entry without a 'Key' member
Tag(k, v) == [has_key |-> TRUE, Key |-> k, Value |-> v]
BadTag == [has_key |-> FALSE, Key |-> "", Value |-> ""]

TagLists ==
    {<<>>,
     <<Tag("Environment", "dev")>>,
     <<Tag("Environment", "dev"), Tag("Name", "web")>>,
     <<Tag("Name", "web"), Tag("Environment", "staging")>>,
     <<Tag("Name", "web")>>,
     <<Tag("Environment", "")>>,
     <<Tag("Environment", "all")>>,
     <<BadTag, Tag("Environment", "dev")>>,
     <<Tag("Environment", "dev"), BadTag>>}

\* InstanceType: missing, present but no string, or a string (its characters)
TypeVal(kind, chars) == [kind |-> kind, chars |-> chars]
InstanceTypes ==
    {TypeVal("missing", <<>>), TypeVal("nonstr", <<>>),
     TypeVal("str", <<"t", "3", ".", "m", "i", "c", "r", "o">>),
     TypeVal("str", <<"m", "5", ".", "l", "a", "r", "g", "e">>)}

Instances ==
    [Tags : TagLists,
     PublicIpAddress : {None, Str(""), Str("1.2.3.4")},
     PrivateIpAddress : {Str("10.0.0.1")},
     InstanceId : {Str("i-0abc")},
     KeyName : {None, Str("prod-key")},
     InstanceType : InstanceTypes,
     AvailabilityZone : {Str("ap-southeast-1a")}]

\* instance.get('KeyName', 'iac-demo-key')
KeyNameOf(instance) ==
    IF IsNone(instance.KeyName) THEN Str("iac-demo-key") ELSE instance.KeyName

\* lines 165-168: the first tag whose Key is 'Environment'; reading the Key
\* of an entry that has none raises
RECURSIVE FindEnvironmentTag(_)
FindEnvironmentTag(tags) ==
    IF tags = <<>> THEN [raised |-> FALSE, env |-> None]
    ELSE IF ~Head(tags).has_key THEN [raised |-> TRUE, env |-> None]
    ELSE IF Head(tags).Key = "Environment"
    THEN [raised |-> FALSE, env |-> Str(Head(tags).Value)]
    ELSE FindEnvironmentTag(Tail(tags))

\* _extract_host_info_from_ec2 without the test of line 177
ExtractHostInfoFromEc2_NoAddressTest(instance) ==
    LET found == FindEnvironmentTag(instance.Tags)
    IN  IF found.raised THEN NoHostInfo
        ELSE IF ~Truthy(found.env) THEN NoHostInfo
        ELSE HostInfo([ansible_host |-> instance.PublicIpAddress,
                       ansible_user |-> "ubuntu",
                       ansible_ssh_private_key_file |-> KeyFile(KeyNameOf(instance)),
                       environment |-> found.env.v,
                       private_ip |-> instance.PrivateIpAddress,
                       instance_id |-> instance.InstanceId,
                       key_name |-> KeyNameOf(instance),
                       source |-> "aws-api"])

\* TerraformInventory._extract_host_info_from_ec2
ExtractHostInfoFromEc2(instance) ==
    LET found == FindEnvironmentTag(instance.Tags)
    IN  IF found.raised THEN NoHostInfo
        ELSE IF ~Truthy(found.env) THEN NoHostInfo
        ELSE IF ~Truthy(instance.PublicIpAddress) THEN NoHostInfo
        ELSE HostInfo([ansible_host |-> instance.PublicIpAddress,
                       ansible_user |-> "ubuntu",
                       ansible_ssh_private_key_file |-> KeyFile(KeyNameOf(instance)),
                       environment |-> found.env.v,
                       private_ip |-> instance.PrivateIpAddress,
                       instance_id |-> instance.InstanceId,
                       key_name |-> KeyNameOf(instance),
                       source |-> "aws-api"])

\* line 264: `not specific_env or env == specific_env`
PassesFilter(filter, env) == ~Truthy(filter) \/ env = filter.v

\* ------------------------------------------------------- EC2Inventory
\* line 323: {tag['Key']: tag['Value'] for tag in tags}; a later entry of
\* the same key replaces an earlier one
RECURSIVE TagsDict(_)
TagsDict(tags) ==
    IF tags = <<>> THEN [raised |-> FALSE, dict |-> <<>>]
    ELSE LET last == tags[Len(tags)]
             rest == TagsDict(SubSeq(tags, 1, Len(tags) - 1))
         IN  IF rest.raised \/ ~last.has_key THEN [raised |-> TRUE, dict |-> <<>>]
             ELSE [raised |-> FALSE, dict |-> (last.Key :> last.Value) @@ rest.dict]

\* tags.get(key) / tags.get(key, default)
TagGet(dict, key, default) == IF key \in DOMAIN dict THEN Str(dict[key]) ELSE default

\* str.replace('.', '_') on the characters of a string
RECURSIVE ReplaceDots(_)
ReplaceDots(chars) ==
    IF chars = <<>> THEN <<>>
    ELSE <<IF Head(chars) = "." THEN "_" ELSE Head(chars)>> \o ReplaceDots(Tail(chars))

\* the string made of the characters
RECURSIVE Join(_)
Join(chars) == IF chars = <<>> THEN "" ELSE Head(chars) \o Join(Tail(chars))

UnknownType == <<"u", "n", "k", "n", "o", "w", "n">>

\* line 358-359: the characters of the instance type group's name
TypeGroupChars(itype) ==
    <<"t", "y", "p", "e", "_">>
        \o ReplaceDots(IF itype.kind = "missing" THEN UnknownType ELSE itype.chars)

\* EC2Inventory._add_to_group
AddToGroup(inv, group_name, hostname) ==
    LET i1 == IF group_name \in GroupNames(inv) THEN inv
              ELSE SetGroup(inv, group_name, Group(TRUE, <<>>, {}))
    IN  IF InList(i1.groups[group_name].hosts, hostname) THEN i1
        ELSE SetGroup(i1, group_name,
                      [i1.groups[group_name] EXCEPT !.hosts = Append(@, hostname)])

\* f"{environment}-{tags.get('Name', 'unknown')}"
Ec2Hostname(environment, dict) ==
    environment \o "-" \o TagGet(dict, "Name", Str("unknown")).v

\* instance.get('InstanceType') as stored in the host variables
InstanceTypeVar(itype) == IF itype.kind = "str" THEN Str(Join(itype.chars)) ELSE None

\* EC2Inventory._process_instance; raised = an error was caught at line 361
ProcessInstance(inv, instance) ==
    LET t == TagsDict(instance.Tags)
        environment == TagGet(t.dict, "Environment", None)
        hostname == Ec2Hostname(environment.v, t.dict)
        host_vars == [ansible_host |-> instance.PublicIpAddress,
                      ansible_user |-> "ubuntu",
                      ansible_ssh_private_key_file |-> KeyFile(KeyNameOf(instance)),
                      private_ip |-> instance.PrivateIpAddress,
                      instance_id |-> instance.InstanceId,
                      instance_type |-> InstanceTypeVar(instance.InstanceType),
                      availability_zone |-> instance.AvailabilityZone,
                      environment |-> environment.v,
                      tags |-> t.dict]
        i1 == SetHostVars(inv, hostname, host_vars)
        i2 == AddToGroup(i1, "all", hostname)
        i3 == AddToGroup(i2, "web_servers", hostname)
        i4 == AddToGroup(i3, environment.v, hostname)
    IN  IF t.raised THEN [raised |-> TRUE, inv |-> inv]
        ELSE IF ~Truthy(environment) THEN [raised |-> FALSE, inv |-> inv]
        ELSE IF ~Truthy(instance.PublicIpAddress) THEN [raised |-> FALSE, inv |-> inv]
        ELSE IF instance.InstanceType.kind = "nonstr" THEN [raised |-> TRUE, inv |-> i4]
        ELSE [raised |-> FALSE,
              inv |-> AddToGroup(i4, Join(TypeGroupChars(instance.InstanceType)),
                                 hostname)]

\* ------------------------------------------------------------ the run
Sources == {"terraform", "ec2"}
Modes == {"list", "host", "none"}
EnvArgs == {None, Str("dev"), Str("staging")}
HostArgs == {"dev-web-server", "dev-web", "no-such-host"}

NoOutput == [kind |-> "none", value |-> <<>>]

\* line 235: [specific_env] if specific_env else self.terraform_environments
Environments(filter) == IF Truthy(filter) THEN <<filter.v>> ELSE terraform_environments

\* line 256 with the fallback taken whatever the count
FallbackNeeded_Always(found) == found >= 0

\* line 256: if hosts_found == 0
FallbackNeeded(found) == found = 0

\* TerraformInventory.get_host_vars and line 408: hostvars.get(hostname, {})
GetHostVars(inv, hostname) ==
    IF hostname \in HostNames(inv) THEN inv.hostvars[hostname] ELSE <<>>

\* the hostname an instance would get from each generator, when it has one
TfInstanceNames(instance) ==
    LET found == FindEnvironmentTag(instance.Tags)
    IN  IF ~found.raised /\ Truthy(found.env) THEN {TfHostname(found.env.v)} ELSE {}

Ec2InstanceNames(instance) ==
    LET t == TagsDict(instance.Tags)
    IN  IF ~t.raised /\ Truthy(TagGet(t.dict, "Environment", None))
        THEN {Ec2Hostname(TagGet(t.dict, "Environment", None).v, t.dict)} ELSE {}

Init ==
    /\ pc = "main"
    /\ source = "terraform"
    /\ mode = "none"
    /\ specific_env = None
    /\ host_arg = ""
    /\ inventory = EmptyInventory
    /\ cwd = StartDir
    /\ env_idx = 1
    /\ hosts_found = 0
    /\ remaining = 0
    /\ output = NoOutput
    /\ exit_code = -1
    /\ api_queried = FALSE
    /\ from_state = {}
    /\ valid_state = {}
    /\ valid_seen = 0
    /\ addr_names = {}
    /\ noaddr_names = {}
    /\ last_raised = FALSE
    /\ ec2_valid = {}

History == <<api_queried, from_state, valid_state, valid_seen, addr_names,
             noaddr_names, last_raised, ec2_valid>>

\* main, lines 375-399: parse the arguments, build the generator, and enter
\* generate_inventory; with neither --list nor --host, print the help and exit 1
Main ==
    /\ pc = "main"
    /\ \E src \in Sources, m \in Modes, e \in EnvArgs, h \in HostArgs :
        /\ source' = src
        /\ mode' = m
        /\ specific_env' = IF m = "list" /\ src = "terraform" THEN e ELSE None
        /\ host_arg' = IF m = "host" THEN h ELSE ""
        /\ pc' = IF m = "none" THEN "exit"
                 ELSE IF src = "terraform" THEN "tf_check" ELSE "ec2_query"
        /\ exit_code' = IF m = "none" THEN 1 ELSE -1
    /\ UNCHANGED <<inventory, cwd, env_idx, hosts_found, remaining, output, History>>

\* lines 239-243 and 253: the state check of the next environment
TfCheckState ==
    /\ pc = "tf_check"
    /\ env_idx <= Len(Environments(specific_env))
    /\ \E o \in ToolOutcomes(ShowStdouts) :
        LET env == Environments(specific_env)[env_idx]
            r == CheckTerraformState(RunResult(o))
        IN  /\ cwd' = CwdAfter(cwd, env, o)
            /\ pc' = CASE r = "raise" -> "exit"
                       [] r = "true" -> "tf_outputs"
                       [] OTHER -> "tf_check"
            /\ exit_code' = IF r = "raise" THEN 1 ELSE exit_code
            /\ env_idx' = IF r = "false" THEN env_idx + 1 ELSE env_idx
            /\ noaddr_names' = IF r = "false" THEN noaddr_names \cup {TfHostname(env)}
                               ELSE noaddr_names
    /\ UNCHANGED <<source, mode, specific_env, host_arg, inventory, hosts_found,
                   remaining, output, api_queried, from_state, valid_state,
                   valid_seen, addr_names, last_raised, ec2_valid>>

\* lines 244-253: read the outputs, extract the host and insert it
TfGetOutputs ==
    /\ pc = "tf_outputs"
    /\ \E o \in ToolOutcomes(OutputStdouts) :
        LET env == Environments(specific_env)[env_idx]
            outputs == RunResult(o)
            hi == IF OutputsTruthy(outputs)
                  THEN ExtractHostInfoFromTerraform(env, outputs) ELSE NoHostInfo
            added == AddHostToInventory(inventory, env, hi.info)
            has_addr == Truthy(OutputPublicIp(outputs))
            well_formed == \A k \in DOMAIN outputs.fields :
                               outputs.fields[k].kind # "nondict"
        IN  /\ cwd' = CwdAfter(cwd, env, o)
            /\ inventory' = IF hi.ok THEN added.inv ELSE inventory
            /\ pc' = IF hi.ok /\ ~added.ok THEN "exit" ELSE "tf_check"
            /\ exit_code' = IF hi.ok /\ ~added.ok THEN 1 ELSE exit_code
            /\ hosts_found' = IF hi.ok /\ added.ok THEN hosts_found + 1 ELSE hosts_found
            /\ from_state' = IF hi.ok /\ added.ok THEN from_state \cup {env}
                             ELSE from_state
            /\ valid_state' = IF has_addr /\ well_formed THEN valid_state \cup {env}
                              ELSE valid_state
            /\ addr_names' = IF has_addr THEN addr_names \cup {TfHostname(env)}
                             ELSE addr_names
            /\ noaddr_names' = IF has_addr THEN noaddr_names
                               ELSE noaddr_names \cup {TfHostname(env)}
    /\ env_idx' = env_idx + 1
    /\ UNCHANGED <<source, mode, specific_env, host_arg, remaining, output,
                   api_queried, valid_seen, last_raised, ec2_valid>>

\* lines 256-258 and _get_ec2_instances_from_aws: after the loop, with no host
\* found, query the API; a failed call gives the empty list
TfFallbackQuery ==
    /\ pc = "tf_check"
    /\ env_idx > Len(Environments(specific_env))
    /\ FallbackNeeded(hosts_found)
    /\ \E ok \in BOOLEAN, n \in 0..MaxInstances :
        /\ remaining' = IF ok THEN n ELSE 0
        /\ pc' = IF ok /\ n > 0 THEN "tf_fallback" ELSE "tf_return"
    /\ api_queried' = TRUE
    /\ UNCHANGED <<source, mode, specific_env, host_arg, inventory, cwd, env_idx,
                   hosts_found, output, exit_code, from_state, valid_state,
                   valid_seen, addr_names, noaddr_names, last_raised, ec2_valid>>

\* line 256, the other branch: hosts were found, no fallback
TfNoFallback ==
    /\ pc = "tf_check"
    /\ env_idx > Len(Environments(specific_env))
    /\ ~FallbackNeeded(hosts_found)
    /\ pc' = "tf_return"
    /\ UNCHANGED <<source, mode, specific_env, host_arg, inventory, cwd, env_idx,
                   hosts_found, remaining, output, exit_code, History>>

\* lines 260-267: one instance of the API response
TfFallbackInstance ==
    /\ pc = "tf_fallback"
    /\ remaining > 0
    /\ \E instance \in Instances :
        LET hi == ExtractHostInfoFromEc2(instance)
            valid == hi.ok /\ PassesFilter(specific_env, hi.info.environment)
            added == AddHostToInventory(inventory, hi.info.environment, hi.info)
            has_addr == Truthy(instance.PublicIpAddress)
        IN  /\ inventory' = IF valid THEN added.inv ELSE inventory
            /\ pc' = IF valid /\ ~added.ok THEN "exit"
                     ELSE IF remaining = 1 THEN "tf_return" ELSE "tf_fallback"
            /\ exit_code' = IF valid /\ ~added.ok THEN 1 ELSE exit_code
            /\ hosts_found' = IF valid /\ added.ok THEN hosts_found + 1 ELSE hosts_found
            /\ valid_seen' = IF valid THEN valid_seen + 1 ELSE valid_seen
            /\ addr_names' = IF has_addr THEN addr_names \cup TfInstanceNames(instance)
                             ELSE addr_names
            /\ noaddr_names' = IF has_addr THEN noaddr_names
                               ELSE noaddr_names \cup TfInstanceNames(instance)
    /\ remaining' = remaining - 1
    /\ UNCHANGED <<source, mode, specific_env, host_arg, cwd, env_idx, output,
                   api_queried, from_state, valid_state, last_raised, ec2_valid>>

\* EC2Inventory.generate_inventory, lines 292-307 and 315-317: the API call;
\* an error of the call returns the document built so far
Ec2Query ==
    /\ pc = "ec2_query"
    /\ \E ok \in BOOLEAN, n \in 0..MaxInstances :
        /\ remaining' = IF ok THEN n ELSE 0
        /\ pc' = IF ok /\ n > 0 THEN "ec2_process" ELSE "ec2_return"
    /\ UNCHANGED <<source, mode, specific_env, host_arg, inventory, cwd, env_idx,
                   hosts_found, output, exit_code, History>>

\* lines 309-311: one instance of the response
Ec2ProcessInstance ==
    /\ pc = "ec2_process"
    /\ remaining > 0
    /\ \E instance \in Instances :
        LET r == ProcessInstance(inventory, instance)
            has_addr == Truthy(instance.PublicIpAddress)
            names == Ec2InstanceNames(instance)
        IN  /\ inventory' = r.inv
            /\ last_raised' = r.raised
            /\ addr_names' = IF has_addr THEN addr_names \cup names ELSE addr_names
            /\ noaddr_names' = IF has_addr THEN noaddr_names ELSE noaddr_names \cup names
            /\ ec2_valid' = IF has_addr /\ names # {}
                            THEN ec2_valid \cup
                                 {[host |-> h,
                                   env |-> TagGet(TagsDict(instance.Tags).dict,
                                                  "Environment", None).v,
                                   itype |-> instance.InstanceType] : h \in names}
                            ELSE ec2_valid
    /\ remaining' = remaining - 1
    /\ pc' = IF remaining = 1 THEN "ec2_return" ELSE "ec2_process"
    /\ UNCHANGED <<source, mode, specific_env, host_arg, cwd, env_idx, hosts_found,
                   output, exit_code, api_queried, from_state, valid_state, valid_seen>>

\* main, lines 395-409: print the document (list mode) or the host's record
MainOutput ==
    /\ pc \in {"tf_return", "ec2_return"}
    /\ output' = IF mode = "list" THEN [kind |-> "inventory", value |-> inventory]
                 ELSE [kind |-> "host", value |-> GetHostVars(inventory, host_arg)]
    /\ exit_code' = 0
    /\ pc' = "exit"
    /\ UNCHANGED <<source, mode, specific_env, host_arg, inventory, cwd, env_idx,
                   hosts_found, remaining, History>>

Next ==
    \/ Main
    \/ TfCheckState
    \/ TfGetOutputs
    \/ TfFallbackQuery
    \/ TfNoFallback
    \/ TfFallbackInstance
    \/ Ec2Query
    \/ Ec2ProcessInstance
    \/ MainOutput

Spec == Init /\ [][Next]_vars

\* ------------------------------------------------------------ claims
WorkingSet == {Environments(specific_env)[i] : i \in 1..Len(Environments(specific_env))}

\* h is in no group's host list
InNoGroup(inv, h) == \A g \in GroupNames(inv) : ~InList(HostsOf(inv, g), h)

\* C1: when the state-backed generate has returned, every environment whose
\* state check succeeded and whose outputs hold a non-empty public address has
\* the host <env>-web-server, exactly once in web_servers and in <env>, and
\* in the host list of all.
C1_StateHostInAllGroups ==
    (source = "terraform" /\ pc = "tf_return") =>
        \A env \in valid_state :
            /\ TfHostname(env) \in HostNames(inventory)
            /\ Count(HostsOf(inventory, "web_servers"), TfHostname(env)) = 1
            /\ Count(HostsOf(inventory, env), TfHostname(env)) = 1
            /\ InList(HostsOf(inventory, "all"), TfHostname(env))

\* C2: when the state-backed generate has returned through the fallback, the
\* document holds one host per valid instance: as many host records and as
\* many web_servers entries as valid instances, each host in the group of its
\* Environment tag.
C2_OneHostPerValidInstance ==
    (source = "terraform" /\ pc = "tf_return" /\ api_queried) =>
        /\ Cardinality(HostNames(inventory)) = valid_seen
        /\ Len(HostsOf(inventory, "web_servers")) = valid_seen
        /\ \A h \in HostNames(inventory) :
               InList(HostsOf(inventory, inventory.hostvars[h].environment), h)

\* C3: under either generator every host record has a non-empty ansible_host,
\* and a hostname that only address-less source items gave is in no host
\* record and in no group list.
C3_NoAddressNoInsertion ==
    /\ \A h \in HostNames(inventory) : Truthy(inventory.hostvars[h].ansible_host)
    /\ \A h \in noaddr_names \ addr_names :
           h \notin HostNames(inventory) /\ InNoGroup(inventory, h)

\* C3 witness: a finished run that met an address-less item and inserted
\* another one.
C3_Witness ==
    /\ pc = "exit"
    /\ exit_code = 0
    /\ noaddr_names \ addr_names # {}
    /\ HostNames(inventory) # {}

\* C4: every call of _run_terraform_command returns with the working
\* directory it was entered with, so the directory is the initial one
\* throughout generate_inventory.
C4_CwdRestored == cwd = StartDir

\* C5: the state-backed generate never raises: a run that asked for a list or
\* a host never ends in the error exit.
C5_GenerateNeverRaises ==
    (source = "terraform" /\ mode # "none") => exit_code # 1

\* C6: in every document each group's host list holds a hostname at most once.
C6_NoDuplicateInGroup ==
    \A g \in GroupNames(inventory) :
        \A i, j \in 1..Len(HostsOf(inventory, g)) :
            HostsOf(inventory, g)[i] = HostsOf(inventory, g)[j] => i = j

\* C7: a _process_instance call that ends in the caught error leaves the
\* document as it was: the instance is skipped.
C7_FailedInstanceSkipped ==
    [][(pc = "ec2_process" /\ last_raised') => inventory' = inventory]_vars

\* C8: in host mode, a finished run whose hostname is no key of the host
\* records printed the empty record and did not end in the error exit.
C8_UnknownHostEmptyRecord ==
    (pc = "exit" /\ mode = "host" /\ host_arg \notin HostNames(inventory)) =>
        /\ exit_code # 1
        /\ output = [kind |-> "host", value |-> <<>>]

\* C9: API-backed generate: every instance met with an Environment tag and a
\* public address is in all, web_servers, its environment group and its
\* instance type group, whose name has no '.'.
C9_HostInTypeGroup ==
    (source = "ec2" /\ pc = "ec2_return") =>
        \A x \in ec2_valid :
            /\ InList(HostsOf(inventory, "all"), x.host)
            /\ InList(HostsOf(inventory, "web_servers"), x.host)
            /\ InList(HostsOf(inventory, x.env), x.host)
            /\ InList(HostsOf(inventory, Join(TypeGroupChars(x.itype))), x.host)
            /\ \A i \in 1..Len(TypeGroupChars(x.itype)) :
                   TypeGroupChars(x.itype)[i] # "."

\* C10: the state-backed generator queries the API only after the loop over
\* the whole working set and only with no host found from state; once an
\* environment resolved from state the API is not queried and every other
\* environment of the working set has no group and no host in the document.
C10_FallbackOnlyWhenNoneFromState ==
    source = "terraform" =>
        /\ api_queried =>
               /\ env_idx > Len(Environments(specific_env))
               /\ from_state = {}
        /\ from_state # {} =>
               /\ ~api_queried
               /\ \A env \in WorkingSet \ from_state :
                      /\ env \notin GroupNames(inventory)
                      /\ TfHostname(env) \notin HostNames(inventory)
                      /\ InNoGroup(inventory, TfHostname(env))

\* C10 witness: a finished run where one environment resolved from state and
\* another of the working set did not.
C10_Witness ==
    /\ source = "terraform"
    /\ pc = "exit"
    /\ exit_code = 0
    /\ from_state # {}
    /\ WorkingSet \ from_state # {}

====
